---------------------------- MODULE Spec2Model ----------------------------
(***************************************************************************)
(* A model of generate.py: the cooklang-to-HTML recipe page generator.     *)
(*                                                                         *)
(* Text (everything that ends up in an HTML file) is a sequence of         *)
(* one-character strings, so that spaces, parentheses, decimal points and  *)
(* substrings are things a formula can speak about.  Dictionary keys and   *)
(* the enumeration tags of the parser's JSON ("text", "number", "step",    *)
(* ...) are TLA+ strings.                                                  *)
(*                                                                         *)
(* A Python value is a record tagged with its Python type, so that         *)
(* dict.get defaults, None, truthiness and isinstance are modelled as the  *)
(* interpreter evaluates them.  A call returns Return(v) or Raise(e, l):   *)
(* the exception type and the source line that raises it.                  *)
(***************************************************************************)
EXTENDS Integers, Sequences, FiniteSets, TLC

VARIABLES
    call,         \* harness: the function applied and its arguments
    ret,          \* harness: Pending, or what the call returned or raised
    pc,           \* main(): the position in the script
    cook_files,   \* main(): sorted(RECIPES_DIR.glob("*.cook")), as stems
    pos,          \* main(): 1-based position of the for loop in cook_files
    html,         \* main(): what generate_recipe_html last returned or raised
    recipes,      \* main(): the (title, html name) pairs accumulated
    written,      \* the write_text calls so far, in order: [name, text]
    invocations,  \* the external parser's invocations so far, in order
    exc           \* main(): the uncaught exception that ended the run

vars ==
    <<call, ret, pc, cook_files, pos, html, recipes, written, invocations, exc>>

mainVars == <<pc, cook_files, pos, html, recipes, written, invocations, exc>>

-----------------------------------------------------------------------------
(* Bounds of the model.                                                    *)

\* Floats are fixed-point: PyFloat(m) is the float m / 10^FracDigits.
FracDigits == 2

\* The largest fixed-point mantissa the quantity formatter is applied to.
MaxMantissa == 1100

\* The longest step (in items) render_step is applied to.
MaxItems == 2

\* The longest ingredient list of a rendered document.
MaxIngredients == 2

\* The longest cookware list of a rendered document.
MaxCookware == 2

\* The most sections of a rendered document.
MaxSections == 2

\* The most content entries of a rendered document, all sections together.
MaxEntries == 4

\* The longest recipe list generate_index is applied to.
MaxRecipes == 3

-----------------------------------------------------------------------------
(* Text.                                                                   *)

Range(s) == {s[i] : i \in DOMAIN s}

\* s[i..] starts with needle
StartsAt(s, i, needle) ==
    /\ i >= 1
    /\ i + Len(needle) - 1 <= Len(s)
    /\ \A k \in 1..Len(needle) : s[i + k - 1] = needle[k]

Occurrences(s, needle) == {i \in 1..Len(s) : StartsAt(s, i, needle)}

Contains(s, needle) == Occurrences(s, needle) # {}

SetMin(S) == CHOOSE x \in S : \A y \in S : x <= y

\* the first position >= from at which needle occurs in s, 0 when none
Find(s, needle, from) ==
    LET hits == {i \in from..Len(s) : StartsAt(s, i, needle)}
    IN  IF hits = {} THEN 0 ELSE SetMin(hits)

RECURSIVE Concat(_)
\* "".join(parts)
Concat(parts) ==
    IF parts = <<>> THEN <<>> ELSE Head(parts) \o Concat(Tail(parts))

DigitChars == <<"0","1","2","3","4","5","6","7","8","9">>

RECURSIVE Pow10(_)
Pow10(k) == IF k = 0 THEN 1 ELSE 10 * Pow10(k - 1)

Scale == Pow10(FracDigits)

-----------------------------------------------------------------------------
(* Python values.                                                          *)

None == [t |-> "None"]
Str(s) == [t |-> "str", v |-> s]
PyInt(n) == [t |-> "int", v |-> n]
PyFloat(m) == [t |-> "float", v |-> m]
Dict(f) == [t |-> "dict", v |-> f]
EmptyDict == Dict([k \in {} |-> None])

IsDict(x) == x.t = "dict"
IsFloat(x) == x.t = "float"

\* bool(x)
Truthy(x) ==
    CASE x.t = "None" -> FALSE
      [] x.t = "str" -> x.v # <<>>
      [] x.t = "int" -> x.v # 0
      [] x.t = "float" -> x.v # 0
      [] x.t = "dict" -> DOMAIN x.v # {}

\* d.get(k, default), d a dict
Get(d, k, default) == IF k \in DOMAIN d.v THEN d.v[k] ELSE default

\* d.get("type"), compared with a tag: an absent key compares unequal
TypeOf(d) == IF "type" \in DOMAIN d.v THEN d.v["type"] ELSE "None"

RECURSIVE IntStr(_)
\* str(n), n a non-negative int
IntStr(n) ==
    IF n < 10 THEN <<DigitChars[n + 1]>>
    ELSE IntStr(n \div 10) \o <<DigitChars[(n % 10) + 1]>>

RECURSIVE ZeroPad(_, _)
ZeroPad(s, w) == IF Len(s) >= w THEN s ELSE ZeroPad(<<"0">> \o s, w)

RECURSIVE StripZeros(_)
StripZeros(s) ==
    IF Len(s) > 1 /\ s[Len(s)] = "0" THEN StripZeros(SubSeq(s, 1, Len(s) - 1))
    ELSE s

\* str(x), x a non-negative float in the range Python prints positionally:
\* the shortest decimal that round-trips, always with a fractional digit
FloatStr(m) ==
    IntStr(m \div Scale) \o <<".">>
        \o StripZeros(ZeroPad(IntStr(m % Scale), FracDigits))

\* str(x), and the {x} of an f-string
PyStr(x) ==
    CASE x.t = "None" -> <<"N","o","n","e">>
      [] x.t = "str" -> x.v
      [] x.t = "int" -> IntStr(x.v)
      [] x.t = "float" -> FloatStr(x.v)

Return(v) == [exc |-> "none", val |-> v]
Raise(e, l) == [exc |-> e, line |-> l]
Pending == [exc |-> "pending"]
Raised(r) == r.exc \notin {"none", "pending"}
Returned(r) == r.exc = "none"

-----------------------------------------------------------------------------
(* get_quantity_str                                                        *)

\* A faulty variant: the number is printed with str() whatever it is.
get_quantity_str_no_int(qty) ==
    IF ~Truthy(qty) \/ ~Truthy(Get(qty, "value", None)) THEN <<>>
    ELSE LET val == qty.v["value"] IN
         IF TypeOf(val) = "text" THEN PyStr(Get(val, "value", Str(<<>>)))
         ELSE IF TypeOf(val) = "number" THEN
              LET num == Get(val, "value", EmptyDict)
                  n == IF IsDict(num) THEN Get(num, "value", Str(<<>>)) ELSE num
              IN  PyStr(n)
         ELSE <<>>

get_quantity_str(qty) ==
    IF ~Truthy(qty) \/ ~Truthy(Get(qty, "value", None)) THEN <<>>
    ELSE LET val == qty.v["value"] IN
         IF TypeOf(val) = "text" THEN PyStr(Get(val, "value", Str(<<>>)))
         ELSE IF TypeOf(val) = "number" THEN
              LET num == Get(val, "value", EmptyDict)
                  n == IF IsDict(num) THEN Get(num, "value", Str(<<>>)) ELSE num
              IN  IF IsFloat(n) /\ n.v % Scale = 0
                  THEN IntStr(n.v \div Scale)
                  ELSE PyStr(n)
         ELSE <<>>

-----------------------------------------------------------------------------
(* The text of the templates, character by character.                      *)

CSS ==
    <<"\n","b","o","d","y"," ","{"," ","f","o","n","t","-","f","a","m","i","l","y",":",
      " ","s","y","s","t","e","m","-","u","i",","," ","s","a","n","s","-","s","e","r",
      "i","f",";"," ","m","a","x","-","w","i","d","t","h",":"," ","7","0","0","p","x",
      ";"," ","m","a","r","g","i","n",":"," ","2","r","e","m"," ","a","u","t","o",";",
      " ","p","a","d","d","i","n","g",":"," ","0"," ","1","r","e","m",";"," ","l","i",
      "n","e","-","h","e","i","g","h","t",":"," ","1",".","6",";"," ","}","\n","h","1",
      " ","{"," ","b","o","r","d","e","r","-","b","o","t","t","o","m",":"," ","2","p",
      "x"," ","s","o","l","i","d"," ","#","3","3","3",";"," ","p","a","d","d","i","n",
      "g","-","b","o","t","t","o","m",":"," ","0",".","5","r","e","m",";"," ","}","\n",
      "h","2"," ","{"," ","c","o","l","o","r",":"," ","#","5","5","5",";"," ","m","a",
      "r","g","i","n","-","t","o","p",":"," ","2","r","e","m",";"," ","}","\n","u","l",
      ","," ","o","l"," ","{"," ","p","a","d","d","i","n","g","-","l","e","f","t",":",
      " ","1",".","5","r","e","m",";"," ","}","\n","l","i"," ","{"," ","m","a","r","g",
      "i","n",":"," ","0",".","5","r","e","m"," ","0",";"," ","}","\n",".","i","n","g",
      "r","e","d","i","e","n","t"," ","{"," ","b","a","c","k","g","r","o","u","n","d",
      ":"," ","#","f","e","f","3","c","7",";"," ","p","a","d","d","i","n","g",":"," ",
      "0",".","1","r","e","m"," ","0",".","3","r","e","m",";"," ","b","o","r","d","e",
      "r","-","r","a","d","i","u","s",":"," ","3","p","x",";"," ","}","\n",".","c","o",
      "o","k","w","a","r","e"," ","{"," ","b","a","c","k","g","r","o","u","n","d",":",
      " ","#","d","b","e","a","f","e",";"," ","p","a","d","d","i","n","g",":"," ","0",
      ".","1","r","e","m"," ","0",".","3","r","e","m",";"," ","b","o","r","d","e","r",
      "-","r","a","d","i","u","s",":"," ","3","p","x",";"," ","}","\n",".","t","i","m",
      "e","r"," ","{"," ","b","a","c","k","g","r","o","u","n","d",":"," ","#","d","c",
      "f","c","e","7",";"," ","p","a","d","d","i","n","g",":"," ","0",".","1","r","e",
      "m"," ","0",".","3","r","e","m",";"," ","b","o","r","d","e","r","-","r","a","d",
      "i","u","s",":"," ","3","p","x",";"," ","}","\n","a"," ","{"," ","c","o","l","o",
      "r",":"," ","#","2","5","6","3","e","b",";"," ","}","\n">>

DOC_HEAD ==
    <<"<","!","D","O","C","T","Y","P","E"," ","h","t","m","l",">","\n","<","h","t","m",
      "l"," ","l","a","n","g","=","\"","e","n","\"",">","\n","<","h","e","a","d",">",
      "\n"," "," ","<","m","e","t","a"," ","c","h","a","r","s","e","t","=","\"","U","T",
      "F","-","8","\"",">","\n"," "," ","<","m","e","t","a"," ","n","a","m","e","=",
      "\"","v","i","e","w","p","o","r","t","\""," ","c","o","n","t","e","n","t","=",
      "\"","w","i","d","t","h","=","d","e","v","i","c","e","-","w","i","d","t","h",",",
      " ","i","n","i","t","i","a","l","-","s","c","a","l","e","=","1",".","0","\"",">",
      "\n"," "," ","<","t","i","t","l","e",">">>

TITLE_END_STYLE ==
    <<"<","/","t","i","t","l","e",">","\n"," "," ","<","s","t","y","l","e",">">>

PAGE_BODY_OPEN ==
    <<"<","/","s","t","y","l","e",">","\n","<","/","h","e","a","d",">","\n","<","b","o",
      "d","y",">","\n"," "," ","<","p",">","<","a"," ","h","r","e","f","=","\"","i","n",
      "d","e","x",".","h","t","m","l","\"",">","&","l","a","r","r",";"," ","A","l","l",
      " ","r","e","c","i","p","e","s","<","/","a",">","<","/","p",">","\n"," "," ","<",
      "h","1",">">>

PAGE_INGREDIENTS_OPEN ==
    <<"<","/","h","1",">","\n"," "," ","<","h","2",">","I","n","g","r","e","d","i","e",
      "n","t","s","<","/","h","2",">","\n"," "," ","<","u","l",">","\n">>

PAGE_INGREDIENTS_CLOSE ==
    <<"\n"," "," ","<","/","u","l",">","\n"," "," ">>

PAGE_STEPS_OPEN ==
    <<"\n"," "," ","<","h","2",">","S","t","e","p","s","<","/","h","2",">","\n"," "," ",
      "<","o","l",">","\n">>

PAGE_STEPS_CLOSE ==
    <<"\n"," "," ","<","/","o","l",">","\n","<","/","b","o","d","y",">","\n","<","/",
      "h","t","m","l",">">>

COOKWARE_HEADING ==
    <<"<","h","2",">","C","o","o","k","w","a","r","e","<","/","h","2",">">>

COOKWARE_LIST_OPEN ==
    <<"\n","<","u","l",">","\n">>

COOKWARE_LIST_CLOSE ==
    <<"\n","<","/","u","l",">">>

INDEX_TITLE ==
    <<"R","e","c","i","p","e","s">>

INDEX_BODY_OPEN ==
    <<"<","/","s","t","y","l","e",">","\n","<","/","h","e","a","d",">","\n","<","b","o",
      "d","y",">","\n"," "," ","<","h","1",">","R","e","c","i","p","e","s","<","/","h",
      "1",">","\n"," "," ","<","u","l",">","\n">>

INDEX_BODY_CLOSE ==
    <<"\n"," "," ","<","/","u","l",">","\n","<","/","b","o","d","y",">","\n","<","/",
      "h","t","m","l",">">>

LI_OPEN ==
    <<"<","l","i",">">>

LI_CLOSE ==
    <<"<","/","l","i",">">>

A_HREF_OPEN ==
    <<"<","a"," ","h","r","e","f","=","\"">>

A_HREF_CLOSE ==
    <<"\"",">">>

A_CLOSE ==
    <<"<","/","a",">">>

SPAN_INGREDIENT ==
    <<"<","s","p","a","n"," ","c","l","a","s","s","=","\"","i","n","g","r","e","d","i",
      "e","n","t","\"",">">>

SPAN_COOKWARE ==
    <<"<","s","p","a","n"," ","c","l","a","s","s","=","\"","c","o","o","k","w","a","r",
      "e","\"",">">>

SPAN_TIMER ==
    <<"<","s","p","a","n"," ","c","l","a","s","s","=","\"","t","i","m","e","r","\"",">">>

SPAN_CLOSE ==
    <<"<","/","s","p","a","n",">">>

HTML_SUFFIX ==
    <<".","h","t","m","l">>

INDEX_HTML ==
    <<"i","n","d","e","x",".","h","t","m","l">>
-----------------------------------------------------------------------------
(* render_step                                                             *)

\* x.get("quantity", {}).get("unit", "") or "", evaluated at source line l:
\* a quantity that is present and None has no get
UnitOf(x, l) ==
    LET q == Get(x, "quantity", EmptyDict) IN
    IF ~IsDict(q) THEN Raise("AttributeError", l)
    ELSE LET u == Get(q, "unit", Str(<<>>))
         IN  Return(IF Truthy(u) THEN PyStr(u) ELSE <<>>)

\* xs[i], i a non-negative 0-based index, evaluated at source line l
Lookup(xs, i, l) ==
    IF i < Len(xs) THEN Return(xs[i + 1]) ELSE Raise("IndexError", l)

\* f"{qty}{' ' + unit if unit else ''}"
QtyUnit(qty, unit) == qty \o (IF unit # <<>> THEN <<" ">> \o unit ELSE <<>>)

\* A faulty variant: the empty quantity is parenthesized like any other.
IngredientSpan_always_parens(ing, qty, unit) ==
    SPAN_INGREDIENT \o PyStr(ing.v["name"])
        \o <<" ", "(">> \o QtyUnit(qty, unit) \o <<")">> \o SPAN_CLOSE

\* lines 52-53: the span of an ingredient item
IngredientSpan(ing, qty, unit) ==
    LET qty_str == IF qty # <<>>
                   THEN <<" ", "(">> \o QtyUnit(qty, unit) \o <<")">>
                   ELSE <<>>
    IN  SPAN_INGREDIENT \o PyStr(ing.v["name"]) \o qty_str \o SPAN_CLOSE

\* One turn of render_step's loop: the part appended for item (none for an
\* item of another type), or the exception raised.
RenderItem(item, ingredients, cookware, timers) ==
    CASE item.v["type"] = "text" -> Return(PyStr(item.v["value"]))
      [] item.v["type"] = "ingredient" ->
            LET ing == Lookup(ingredients, item.v["index"], 49) IN
            IF Raised(ing) THEN ing
            ELSE LET qty == get_quantity_str(Get(ing.val, "quantity", EmptyDict))
                     unit == UnitOf(ing.val, 51)
                 IN  IF Raised(unit) THEN unit
                     ELSE Return(IngredientSpan(ing.val, qty, unit.val))
      [] item.v["type"] = "cookware" ->
            LET cw == Lookup(cookware, item.v["index"], 55) IN
            IF Raised(cw) THEN cw
            ELSE Return(SPAN_COOKWARE \o PyStr(cw.val.v["name"]) \o SPAN_CLOSE)
      [] item.v["type"] = "timer" ->
            LET tm == Lookup(timers, item.v["index"], 58) IN
            IF Raised(tm) THEN tm
            ELSE LET qty == get_quantity_str(Get(tm.val, "quantity", EmptyDict))
                     unit == UnitOf(tm.val, 60)
                 IN  IF Raised(unit) THEN unit
                     ELSE Return(SPAN_TIMER \o qty \o <<" ">> \o unit.val
                                    \o SPAN_CLOSE)
      [] OTHER -> Return(<<>>)

RECURSIVE RenderItems(_, _, _, _, _, _)
\* the for loop of render_step from item k on, parts joined so far in acc
RenderItems(items, k, acc, ingredients, cookware, timers) ==
    IF k > Len(items) THEN Return(acc)
    ELSE LET r == RenderItem(items[k], ingredients, cookware, timers) IN
         IF Raised(r) THEN r
         ELSE RenderItems(items, k + 1, acc \o r.val,
                          ingredients, cookware, timers)

render_step(step, ingredients, cookware, timers) ==
    RenderItems(Get(step, "items", <<>>), 1, <<>>, ingredients, cookware, timers)

-----------------------------------------------------------------------------
(* generate_recipe_html                                                    *)

\* What subprocess.run hands back: the exit status and the standard output.
\* The standard output is the document it encodes, or Garbage when it
\* encodes none.
Garbage == [t |-> "garbage"]

\* json.loads(stdout), evaluated at source line l
json_loads(stdout, l) ==
    IF stdout.t = "garbage" THEN Raise("JSONDecodeError", l) ELSE Return(stdout)

\* data.get("metadata", {}).get("map", {}).get("title", cook_file.stem)
TitleOf(data, stem) ==
    Get(Get(Get(data, "metadata", EmptyDict), "map", EmptyDict), "title", Str(stem))

RECURSIVE IngItems(_, _, _)
\* lines 82-87: the loop from ingredient k on, items joined so far in acc
IngItems(ingredients, k, acc) ==
    IF k > Len(ingredients) THEN Return(acc)
    ELSE LET ing == ingredients[k]
             qty == get_quantity_str(Get(ing, "quantity", EmptyDict))
             unit == UnitOf(ing, 85)
         IN  IF Raised(unit) THEN unit
             ELSE LET qty_str == IF qty # <<>>
                                 THEN <<":", " ">> \o QtyUnit(qty, unit.val)
                                 ELSE <<>>
                  IN  IngItems(ingredients, k + 1,
                               acc \o LI_OPEN \o PyStr(ing.v["name"]) \o qty_str
                                   \o LI_CLOSE)

RECURSIVE CwItems(_)
\* line 90: the cookware items, one per entry
CwItems(cookware) ==
    IF cookware = <<>> THEN <<>>
    ELSE <<LI_OPEN \o PyStr(Head(cookware).v["name"]) \o LI_CLOSE>>
            \o CwItems(Tail(cookware))

\* A faulty variant: the heading and the list are emitted whatever the list holds.
CookwareSection_unconditional(cw_items) ==
    COOKWARE_HEADING \o COOKWARE_LIST_OPEN \o Concat(cw_items)
        \o COOKWARE_LIST_CLOSE

\* lines 100-102
CookwareSection(cw_items) ==
    IF cw_items # <<>>
    THEN COOKWARE_HEADING \o COOKWARE_LIST_OPEN \o Concat(cw_items)
            \o COOKWARE_LIST_CLOSE
    ELSE <<>>

RECURSIVE ContentItems(_, _, _, _, _, _)
\* lines 95-98: the inner loop from entry k of one section's content on
ContentItems(content, k, acc, ingredients, cookware, timers) ==
    IF k > Len(content) THEN Return(acc)
    ELSE LET item == content[k] IN
         IF TypeOf(item) = "step"
         THEN LET step_html == render_step(item.v["value"], ingredients,
                                           cookware, timers)
              IN  IF Raised(step_html) THEN step_html
                  ELSE ContentItems(content, k + 1,
                                    acc \o LI_OPEN \o step_html.val \o LI_CLOSE,
                                    ingredients, cookware, timers)
         ELSE ContentItems(content, k + 1, acc, ingredients, cookware, timers)

RECURSIVE SectionItems(_, _, _, _, _, _)
\* lines 94-98: the outer loop from section k on
SectionItems(sections, k, acc, ingredients, cookware, timers) ==
    IF k > Len(sections) THEN Return(acc)
    ELSE LET r == ContentItems(Get(sections[k], "content", <<>>), 1, acc,
                               ingredients, cookware, timers)
         IN  IF Raised(r) THEN r
             ELSE SectionItems(sections, k + 1, r.val,
                               ingredients, cookware, timers)

RECURSIVE Reverse(_)
Reverse(s) == IF s = <<>> THEN <<>> ELSE Reverse(Tail(s)) \o <<Head(s)>>

\* A faulty variant: the sections are walked last to first.
StepItems_reversed(sections, ingredients, cookware, timers) ==
    SectionItems(Reverse(sections), 1, <<>>, ingredients, cookware, timers)

\* lines 93-98
StepItems(sections, ingredients, cookware, timers) ==
    SectionItems(sections, 1, <<>>, ingredients, cookware, timers)

\* lines 104-125: the page template
PageText(title, ing_items, cookware_section, step_items) ==
    DOC_HEAD \o PyStr(title) \o TITLE_END_STYLE \o CSS \o PAGE_BODY_OPEN
        \o PyStr(title) \o PAGE_INGREDIENTS_OPEN \o ing_items
        \o PAGE_INGREDIENTS_CLOSE \o cookware_section \o PAGE_STEPS_OPEN
        \o step_items \o PAGE_STEPS_CLOSE

\* generate_recipe_html(cook_file), given what the parser's invocation
\* returned; stem is cook_file.stem
generate_recipe_html(stem, result) ==
    IF result.rc # 0 THEN Raise("CalledProcessError", 67)
    ELSE LET loaded == json_loads(result.stdout, 73) IN
    IF Raised(loaded) THEN loaded
    ELSE LET data == loaded.val
             title == TitleOf(data, stem)
             ingredients == Get(data, "ingredients", <<>>)
             cookware == Get(data, "cookware", <<>>)
             timers == Get(data, "timers", <<>>)
             sections == Get(data, "sections", <<>>)
             ing_items == IngItems(ingredients, 1, <<>>)
         IN
    IF Raised(ing_items) THEN ing_items
    ELSE LET cw_items == CwItems(cookware)
             step_items == StepItems(sections, ingredients, cookware, timers)
         IN
    IF Raised(step_items) THEN step_items
    ELSE Return(PageText(title, ing_items.val, CookwareSection(cw_items),
                         step_items.val))

-----------------------------------------------------------------------------
(* generate_index                                                          *)

\* line 130: the item of one (title, html) pair
IndexItem(pair) ==
    LI_OPEN \o A_HREF_OPEN \o pair[2] \o A_HREF_CLOSE \o PyStr(pair[1])
        \o A_CLOSE \o LI_CLOSE

RECURSIVE IndexItems_reversed(_)
\* A faulty variant: the items come out last pair first.
IndexItems_reversed(pairs) ==
    IF pairs = <<>> THEN <<>>
    ELSE IndexItems_reversed(Tail(pairs)) \o IndexItem(Head(pairs))

RECURSIVE IndexItems(_)
\* lines 130 and 142: the items of all pairs, joined
IndexItems(pairs) ==
    IF pairs = <<>> THEN <<>>
    ELSE IndexItem(Head(pairs)) \o IndexItems(Tail(pairs))

generate_index(pairs) ==
    DOC_HEAD \o INDEX_TITLE \o TITLE_END_STYLE \o CSS \o INDEX_BODY_OPEN
        \o IndexItems(pairs) \o INDEX_BODY_CLOSE

-----------------------------------------------------------------------------
(* The inputs: documents as the external parser encodes them.              *)

T_FLOUR == <<"f","l","o","u","r">>
T_SALT == <<"s","a","l","t">>
T_SUGAR == <<"s","u","g","a","r">>
T_EGG == <<"e","g","g">>
T_PEPPER == <<"p","e","p","p","e","r">>
T_WATER == <<"w","a","t","e","r">>
T_CUPS == <<"c","u","p","s">>
T_G == <<"g">>
T_MINUTES == <<"m","i","n","u","t","e","s">>
T_PAN == <<"p","a","n">>
T_POT == <<"p","o","t">>
T_TWO == <<"2">>
T_TEN == <<"1","0">>
T_MIX == <<"M","i","x"," ">>
T_NOTE == <<"n","o","t","e">>
T_SOUP == <<"S","o","u","p">>
T_BREAD == <<"B","r","e","a","d">>
T_COOKWARE == <<"C","o","o","k","w","a","r","e">>
STEM_BREAD == <<"b","r","e","a","d">>
STEM_INDEX == <<"i","n","d","e","x">>
STEM_SOUP == <<"s","o","u","p">>

\* Quantities.  The unit is a string, null, or absent.
QText(s, unit) ==
    Dict([value |-> Dict([type |-> "text", value |-> Str(s)]), unit |-> unit])
QDirect(n, unit) ==
    Dict([value |-> Dict([type |-> "number", value |-> n]), unit |-> unit])
QWrapped(n, unit) ==
    Dict([value |-> Dict([type |-> "number",
                          value |-> Dict([type |-> "regular", value |-> n])]),
          unit |-> unit])
QDirectNoUnit(n) == Dict([value |-> Dict([type |-> "number", value |-> n])])
QNullValue(unit) == Dict([value |-> None, unit |-> unit])
QNoValue(unit) == Dict([unit |-> unit])

\* The quantities with a float payload, given directly or wrapped.
FloatQuantities ==
    {QDirect(PyFloat(m), None) : m \in 0..MaxMantissa}
        \cup {QWrapped(PyFloat(m), Str(T_G)) : m \in 0..MaxMantissa}

QtyInputs ==
    FloatQuantities
        \cup {None, EmptyDict, QNullValue(None), QNoValue(Str(T_G)),
              QText(T_TWO, Str(T_CUPS)), QText(<<>>, None),
              Dict([value |-> Dict([type |-> "text"])]),
              Dict([value |-> Dict([type |-> "number"])]),
              Dict([value |-> Dict([type |-> "range", value |-> Str(T_TWO)])]),
              QDirect(PyInt(2), None), QWrapped(PyInt(10), Str(T_G)),
              QDirect(None, None)}

Ingredient(name, q) == Dict([name |-> Str(name), quantity |-> q])
IngredientBare(name) == Dict([name |-> Str(name)])
Cookware(name) == Dict([name |-> Str(name)])
Timer(q) == Dict([name |-> None, quantity |-> q])

Flour == Ingredient(T_FLOUR, QText(T_TWO, Str(T_CUPS)))
Salt == IngredientBare(T_SALT)
Sugar == Ingredient(T_SUGAR, None)
Egg == Ingredient(T_EGG, QDirectNoUnit(PyFloat(2 * Scale)))
Pepper == Ingredient(T_PEPPER, QNullValue(Str(T_G)))
Water == Ingredient(T_WATER, QWrapped(PyFloat((5 * Scale) \div 2), None))
Oddity == Ingredient(T_COOKWARE, EmptyDict)

TextItem(s) == Dict([type |-> "text", value |-> Str(s)])
RefItem(kind, i) == Dict([type |-> kind, index |-> i])
Step(items) == Dict([items |-> items])
StepEntry(items) == Dict([type |-> "step", value |-> Step(items)])
NoteEntry == Dict([type |-> "text", value |-> Str(T_NOTE)])
Section(content) == Dict([content |-> content])

\* The sequences over S of length at most n
SeqsUpTo(S, n) == UNION {[1..k -> S] : k \in 0..n}

-----------------------------------------------------------------------------
(* The harness: one function applied to one input.                         *)

Idle ==
    /\ pc = "idle"
    /\ cook_files = <<>>
    /\ pos = 0
    /\ html = Pending
    /\ recipes = <<>>
    /\ written = <<>>
    /\ invocations = <<>>
    /\ exc = Pending

(* get_quantity_str *)

InitQty ==
    /\ call \in {[fn |-> "get_quantity_str", qty |-> q] : q \in QtyInputs}
    /\ ret = Pending
    /\ Idle

CallQty ==
    /\ call.fn = "get_quantity_str"
    /\ ret = Pending
    /\ ret' = Return(get_quantity_str(call.qty))
    /\ UNCHANGED <<call, mainVars>>

SpecQty == InitQty /\ [][CallQty]_vars

(* render_step *)

\* The flat lists of three documents.
Kitchens ==
    {[ingredients |-> <<Flour, Salt, Pepper>>,
      cookware |-> <<Cookware(T_PAN)>>,
      timers |-> <<Timer(QText(T_TEN, Str(T_MINUTES)))>>],
     [ingredients |-> <<Water, Egg, Sugar>>,
      cookware |-> <<>>,
      timers |-> <<Timer(None)>>],
     [ingredients |-> <<Oddity>>,
      cookware |-> <<Cookware(T_PAN), Cookware(T_POT)>>,
      timers |-> <<Dict([name |-> None]),
                   Timer(QWrapped(PyFloat(2 * Scale), None))>>]}

ItemPool ==
    {TextItem(T_MIX), Dict([type |-> "inlineQuantity", index |-> 0])}
        \cup {RefItem("ingredient", i) : i \in 0..3}
        \cup {RefItem("cookware", i) : i \in 0..1}
        \cup {RefItem("timer", i) : i \in 0..1}

InitStep ==
    /\ call \in {[fn |-> "render_step", step |-> Step(items),
                  ingredients |-> k.ingredients, cookware |-> k.cookware,
                  timers |-> k.timers] :
                    items \in SeqsUpTo(ItemPool, MaxItems), k \in Kitchens}
    /\ ret = Pending
    /\ Idle

CallStep ==
    /\ call.fn = "render_step"
    /\ ret = Pending
    /\ ret' = render_step(call.step, call.ingredients, call.cookware,
                          call.timers)
    /\ UNCHANGED <<call, mainVars>>

SpecStep == InitStep /\ [][CallStep]_vars

(* generate_recipe_html *)

MetaTitled(t) == Dict([map |-> Dict([title |-> Str(t)])])
MetaUntitled == Dict([map |-> EmptyDict])

Doc(meta, ingredients, cookware, timers, sections) ==
    Dict([metadata |-> meta, ingredients |-> ingredients,
          cookware |-> cookware, timers |-> timers, sections |-> sections])

\* The same document with no "metadata" key at all.
DocNoMeta(ingredients, cookware, timers, sections) ==
    Dict([ingredients |-> ingredients, cookware |-> cookware,
          timers |-> timers, sections |-> sections])

IngPool == {Flour, Salt, Sugar, Pepper, Oddity}
CwPool == {Cookware(T_PAN), Cookware(T_POT)}

MixStep == StepEntry(<<TextItem(T_MIX), RefItem("ingredient", 0)>>)

\* Documents that differ in their flat lists.
DocsByLists ==
    {Doc(MetaUntitled, ings, cws, <<>>, <<Section(<<MixStep, NoteEntry>>)>>) :
        ings \in SeqsUpTo(IngPool, MaxIngredients),
        cws \in SeqsUpTo(CwPool, MaxCookware)}

RECURSIVE SumSeq(_)
SumSeq(s) == IF s = <<>> THEN 0 ELSE Head(s) + SumSeq(Tail(s))

\* The content entry at position p of the document, counted over all
\* sections: a step that says its position, or an entry that is no step.
EntryAt(p, kinds) ==
    IF kinds[p] = "step"
    THEN StepEntry(<<TextItem(<<"S">> \o IntStr(p))>>)
    ELSE NoteEntry

\* The sections of the given sizes, entry p of kind kinds[p].
SectionsOf(sizes, kinds) ==
    [i \in 1..Len(sizes) |->
        Section([j \in 1..sizes[i] |->
                    EntryAt(SumSeq(SubSeq(sizes, 1, i - 1)) + j, kinds)])]

SectionLists ==
    UNION {{SectionsOf(sizes, kinds) :
                kinds \in [1..SumSeq(sizes) -> {"step", "text"}]} :
            sizes \in {s \in SeqsUpTo(0..MaxEntries, MaxSections) :
                          SumSeq(s) <= MaxEntries}}

\* Documents that differ in their sections.
DocsBySections ==
    {Doc(MetaTitled(T_SOUP), <<Flour>>, <<Cookware(T_PAN)>>, <<>>, secs) :
        secs \in SectionLists}

\* Documents that differ in their metadata, and documents with keys missing.
DocsByMeta ==
    {Doc(meta, <<>>, cws, <<>>, <<>>) :
        meta \in {MetaUntitled, MetaTitled(T_COOKWARE)},
        cws \in {<<>>, <<Cookware(T_PAN)>>}}
    \cup {DocNoMeta(<<Salt>>, <<>>, <<>>, <<Dict([name |-> Str(T_NOTE)])>>),
          EmptyDict}

PageDocs == DocsByLists \cup DocsBySections \cup DocsByMeta

PageResults ==
    {[rc |-> 0, stdout |-> d] : d \in PageDocs}
        \cup {[rc |-> 0, stdout |-> Garbage], [rc |-> 1, stdout |-> Garbage],
              [rc |-> 1, stdout |-> EmptyDict]}

InitPage ==
    /\ call \in {[fn |-> "generate_recipe_html", stem |-> STEM_SOUP,
                  result |-> r] : r \in PageResults}
    /\ ret = Pending
    /\ Idle

CallPage ==
    /\ call.fn = "generate_recipe_html"
    /\ ret = Pending
    /\ ret' = generate_recipe_html(call.stem, call.result)
    /\ UNCHANGED <<call, mainVars>>

SpecPage == InitPage /\ [][CallPage]_vars

(* generate_index *)

SOUP_HTML == STEM_SOUP \o HTML_SUFFIX
BREAD_HTML == STEM_BREAD \o HTML_SUFFIX

PairPool ==
    {<<Str(t), f>> : t \in {T_SOUP, T_BREAD}, f \in {SOUP_HTML, BREAD_HTML}}

InitIndex ==
    /\ call \in {[fn |-> "generate_index", recipes |-> ps] :
                    ps \in SeqsUpTo(PairPool, MaxRecipes)}
    /\ ret = Pending
    /\ Idle

CallIndex ==
    /\ call.fn = "generate_index"
    /\ ret = Pending
    /\ ret' = Return(generate_index(call.recipes))
    /\ UNCHANGED <<call, mainVars>>

SpecIndex == InitIndex /\ [][CallIndex]_vars

-----------------------------------------------------------------------------
(* main                                                                    *)

Stems == {STEM_BREAD, STEM_INDEX, STEM_SOUP}

Alphabet ==
    <<"a","b","c","d","e","f","g","h","i","j","k","l","m",
      "n","o","p","q","r","s","t","u","v","w","x","y","z">>

Ord(c) == CHOOSE i \in 1..Len(Alphabet) : Alphabet[i] = c

RECURSIVE StrLess(_, _)
\* a < b, as Python compares strings
StrLess(a, b) ==
    IF b = <<>> THEN FALSE
    ELSE IF a = <<>> THEN TRUE
    ELSE IF Head(a) # Head(b) THEN Ord(Head(a)) < Ord(Head(b))
    ELSE StrLess(Tail(a), Tail(b))

RECURSIVE Sorted(_)
\* sorted(S), S a set of stems
Sorted(S) ==
    IF S = {} THEN <<>>
    ELSE LET least == CHOOSE x \in S : \A y \in S \ {x} : StrLess(x, y)
         IN  <<least>> \o Sorted(S \ {least})

\* line 150: sorted(RECIPES_DIR.glob("*.cook")), dir the stems of the
\* directory's .cook files
Discovered(dir) == Sorted(dir)

DocSoup ==
    Doc(MetaTitled(T_SOUP), <<Flour>>, <<Cookware(T_PAN)>>, <<>>,
        <<Section(<<MixStep>>)>>)
\* no title; a step refers to cookware 0 of an empty cookware list
DocBadIndex ==
    DocNoMeta(<<Flour>>, <<>>, <<>>,
        <<Section(<<StepEntry(<<TextItem(T_MIX), RefItem("cookware", 0)>>)>>)>>)
\* a step refers to a timer whose quantity is null, then to ingredient 1 of
\* a list of one
DocNullTimerBadIndex ==
    Doc(MetaTitled(T_BREAD), <<Flour>>, <<Cookware(T_PAN)>>, <<Timer(None)>>,
        <<Section(<<StepEntry(<<RefItem("timer", 0),
                                RefItem("ingredient", 1)>>)>>)>>)

MainDocs == {DocSoup, DocBadIndex, DocNullTimerBadIndex}

\* What one invocation of the external parser may hand back.
ParserResults ==
    {[rc |-> rc, stdout |-> out] : rc \in {0, 1}, out \in MainDocs \cup {Garbage}}

Init ==
    /\ call = [fn |-> "main"]
    /\ ret = Pending
    /\ pc = "start"
    /\ cook_files = <<>>
    /\ pos = 0
    /\ html = Pending
    /\ recipes = <<>>
    /\ written = <<>>
    /\ invocations = <<>>
    /\ exc = Pending

\* A faulty variant: the suffix is appended to the whole file name.
HtmlName_appended(stem) == stem \o <<".", "c", "o", "o", "k">> \o HTML_SUFFIX

\* line 151: cook_file.with_suffix(".html").name
HtmlName(stem) == stem \o HTML_SUFFIX

\* lines 149-150: the directory is listed and the for loop is entered
Discover ==
    /\ pc = "start"
    /\ \E dir \in SUBSET Stems :
          /\ cook_files' = Discovered(dir)
          /\ pc' = IF dir = {} THEN "index" ELSE "generate"
    /\ pos' = 1
    /\ UNCHANGED <<call, ret, html, recipes, written, invocations, exc>>

\* lines 151-154: the page of cook_files[pos] is generated and written; an
\* exception of generate_recipe_html is not caught
GeneratePage ==
    /\ pc = "generate"
    /\ \E result \in ParserResults :
          /\ invocations' = Append(invocations,
                [file |-> cook_files[pos], line |-> 67, result |-> result])
          /\ html' = generate_recipe_html(cook_files[pos], result)
    /\ IF Raised(html')
       THEN /\ exc' = html'
            /\ pc' = "raised"
            /\ UNCHANGED written
       ELSE /\ written' = Append(written,
                  [name |-> HtmlName(cook_files[pos]), text |-> html'.val])
            /\ pc' = "title"
            /\ UNCHANGED exc
    /\ UNCHANGED <<call, ret, cook_files, pos, recipes>>

\* lines 156-164: the parser is invoked again, without check=True, for the
\* title of the index entry, and the loop moves on
ExtractTitle ==
    /\ pc = "title"
    /\ \E result \in ParserResults :
          LET stem == cook_files[pos]
              data == json_loads(result.stdout, 162)
          IN  /\ invocations' = Append(invocations,
                    [file |-> stem, line |-> 157, result |-> result])
              /\ IF Raised(data)
                 THEN /\ exc' = data
                      /\ pc' = "raised"
                      /\ UNCHANGED <<recipes, pos>>
                 ELSE /\ recipes' = Append(recipes,
                            <<TitleOf(data.val, stem), HtmlName(stem)>>)
                      /\ pos' = pos + 1
                      /\ pc' = IF pos < Len(cook_files) THEN "generate"
                               ELSE "index"
                      /\ UNCHANGED exc
    /\ UNCHANGED <<call, ret, cook_files, html, written>>

\* lines 166-170
WriteIndex ==
    /\ pc = "index"
    /\ written' = Append(written,
            [name |-> INDEX_HTML, text |-> generate_index(recipes)])
    /\ pc' = "done"
    /\ UNCHANGED <<call, ret, cook_files, pos, html, recipes, invocations, exc>>

Next == Discover \/ GeneratePage \/ ExtractTitle \/ WriteIndex

Spec == Init /\ [][Next]_vars

-----------------------------------------------------------------------------
(* What the claims are stated with.                                        *)

IsDigits(s) == s # <<>> /\ \A i \in DOMAIN s : s[i] \in Range(DigitChars)

DigitVal(c) == (CHOOSE d \in 1..10 : DigitChars[d] = c) - 1

RECURSIVE ParseNat(_)
\* the number a string of digits denotes
ParseNat(s) ==
    IF s = <<>> THEN 0
    ELSE 10 * ParseNat(SubSeq(s, 1, Len(s) - 1)) + DigitVal(s[Len(s)])

\* a numeral with no leading zero
IsNumeral(s) == IsDigits(s) /\ (Len(s) > 1 => s[1] # "0")

\* The payload of a numeric quantity, unwrapped one level; None when the
\* quantity is not numeric.
NumericPayload(qty) ==
    IF ~(IsDict(qty) /\ "value" \in DOMAIN qty.v) THEN None
    ELSE LET val == qty.v["value"] IN
         IF ~(IsDict(val) /\ TypeOf(val) = "number" /\ "value" \in DOMAIN val.v)
         THEN None
         ELSE LET num == val.v["value"] IN
              IF IsDict(num)
              THEN (IF "value" \in DOMAIN num.v THEN num.v["value"] ELSE None)
              ELSE num

\* out is the decimal numeral of m / Scale with a decimal point, fractional
\* digits and no trailing zero
IsDecimalOf(out, m) ==
    \E d \in 1..Len(out) :
        /\ out[d] = "."
        /\ LET ip == SubSeq(out, 1, d - 1)
               fp == SubSeq(out, d + 1, Len(out))
           IN  /\ IsNumeral(ip)
               /\ IsDigits(fp)
               /\ fp[Len(fp)] # "0"
               /\ Len(fp) <= FracDigits
               /\ ParseNat(ip) = m \div Scale
               /\ ParseNat(fp) * Pow10(FracDigits - Len(fp)) = m % Scale

\* C7: for a numeric quantity whose payload, given directly or wrapped one
\* level, is a float with fractional part zero, get_quantity_str returns the
\* integer numeral, with no decimal point; for a float with a non-zero
\* fractional part it returns the float's decimal representation.
C7_FloatFormatting ==
    (call.fn = "get_quantity_str" /\ Returned(ret)) =>
        LET n == NumericPayload(call.qty) IN
        IsFloat(n) =>
            IF n.v % Scale = 0
            THEN /\ "." \notin Range(ret.val)
                 /\ IsNumeral(ret.val)
                 /\ ParseNat(ret.val) = n.v \div Scale
            ELSE IsDecimalOf(ret.val, n.v)

\* 2.0, wrapped one level, has been formatted as "2"
C7_Witness ==
    /\ call.fn = "get_quantity_str"
    /\ call.qty = QWrapped(PyFloat(2 * Scale), Str(T_G))
    /\ ret = Return(<<"2">>)

\* The text of each span opened by open in out, in order.
RECURSIVE SpansFrom(_, _, _)
SpansFrom(out, open, from) ==
    LET p == Find(out, open, from) IN
    IF p = 0 THEN <<>>
    ELSE LET s == p + Len(open)
             e == Find(out, SPAN_CLOSE, s)
         IN  <<SubSeq(out, s, e - 1)>> \o SpansFrom(out, open, e + Len(SPAN_CLOSE))

IsIngredientItem(item) == item.v["type"] = "ingredient"

\* The unit of x's quantity as a string: empty when absent, null or empty.
UnitText(x) ==
    LET q == Get(x, "quantity", EmptyDict) IN
    IF IsDict(q) /\ "unit" \in DOMAIN q.v /\ q.v["unit"].t = "str"
    THEN q.v["unit"].v
    ELSE <<>>

\* The text of an ingredient's span: the name, then (when the formatted
\* quantity is not empty) lead, "(", the quantity, a space and the unit when
\* there is a unit, ")".
SpanText(ing, lead) ==
    LET q == get_quantity_str(Get(ing, "quantity", EmptyDict))
        u == UnitText(ing)
    IN  ing.v["name"].v
            \o (IF q = <<>> THEN <<>>
                ELSE lead \o <<"(">> \o q
                        \o (IF u = <<>> THEN <<>> ELSE <<" ">> \o u) \o <<")">>)

\* The ingredient spans of a rendered step are, in order, those of its
\* ingredient items, each name followed by lead and the parenthesized suffix.
IngredientSpansAre(lead) ==
    (call.fn = "render_step" /\ Returned(ret)) =>
        LET refs == SelectSeq(call.step.v["items"], IsIngredientItem)
            spans == SpansFrom(ret.val, SPAN_INGREDIENT, 1)
        IN  /\ Len(spans) = Len(refs)
            /\ \A k \in DOMAIN refs :
                  spans[k] =
                      SpanText(call.ingredients[refs[k].v["index"] + 1], lead)

\* C8 as stated: inside the ingredient span the parenthesized suffix follows
\* the name with no space before the opening parenthesis.
C8_NoSpaceBeforeParenthesis == IngredientSpansAre(<<>>)

\* C8 as amended: every ingredient span render_step emits holds the name,
\* followed (when the formatted quantity is not empty) by exactly one space
\* and the parenthesized quantity, with one space and the unit when the unit
\* is not empty; with an empty formatted quantity it holds the name alone.
C8_OneSpaceBeforeParenthesis == IngredientSpansAre(<<" ">>)

\* flour with quantity and unit, then salt with no quantity, were rendered
C8_Witness ==
    /\ call.fn = "render_step"
    /\ call.step = Step(<<RefItem("ingredient", 0), RefItem("ingredient", 1)>>)
    /\ call.ingredients = <<Flour, Salt, Pepper>>
    /\ ret = Return(SPAN_INGREDIENT \o T_FLOUR \o <<" ", "(">> \o T_TWO
                        \o <<" ">> \o T_CUPS \o <<")">> \o SPAN_CLOSE
                        \o SPAN_INGREDIENT \o T_SALT \o SPAN_CLOSE)

\* The text of each <li> element of s, in order.
RECURSIVE ListItems(_, _)
ListItems(s, from) ==
    LET p == Find(s, LI_OPEN, from) IN
    IF p = 0 THEN <<>>
    ELSE LET b == p + Len(LI_OPEN)
             e == Find(s, LI_CLOSE, b)
         IN  <<SubSeq(s, b, e - 1)>> \o ListItems(s, e + Len(LI_CLOSE))

\* s holds the <li> elements of items and nothing else
IsListOf(s, items) ==
    /\ ListItems(s, 1) = items
    /\ Len(s) = SumSeq([k \in DOMAIN items |->
                            Len(LI_OPEN) + Len(items[k]) + Len(LI_CLOSE)])

\* The part of s between the first open and the first close after it.
Between(s, open, close) ==
    LET b == Find(s, open, 1) + Len(open)
        e == Find(s, close, b)
    IN  SubSeq(s, b, e - 1)

\* The document a call of generate_recipe_html rendered.
RenderedDoc == call.result.stdout

PageReturned == call.fn = "generate_recipe_html" /\ Returned(ret)

\* The content entries of all sections, in document order.
AllEntries(sections) ==
    Concat([i \in DOMAIN sections |-> Get(sections[i], "content", <<>>)])

IsStepEntry(entry) == TypeOf(entry) = "step"

\* C3: the Steps list of a rendered page holds exactly one item per content
\* entry of type step, in document order (sections in order, entries in order
\* within a section); the other entries contribute nothing.
C3_StepsInDocumentOrder ==
    PageReturned =>
        LET data == RenderedDoc
            steps == SelectSeq(AllEntries(Get(data, "sections", <<>>)),
                               IsStepEntry)
        IN  IsListOf(Between(ret.val, PAGE_STEPS_OPEN, PAGE_STEPS_CLOSE),
                     [k \in DOMAIN steps |->
                        render_step(steps[k].v["value"],
                                    Get(data, "ingredients", <<>>),
                                    Get(data, "cookware", <<>>),
                                    Get(data, "timers", <<>>)).val])

\* sections [S1, S2] with S1 = [step, step] and S2 = [no step, step] were
\* rendered as the three steps, in order
C3_Witness ==
    /\ PageReturned
    /\ Get(RenderedDoc, "sections", <<>>) =
            SectionsOf(<<2, 2>>, <<"step", "step", "text", "step">>)
    /\ ListItems(Between(ret.val, PAGE_STEPS_OPEN, PAGE_STEPS_CLOSE), 1) =
            <<<<"S", "1">>, <<"S", "2">>, <<"S", "4">>>>

\* The links of an index page, in order.
RECURSIVE LinksFrom(_, _)
LinksFrom(s, from) ==
    LET p == Find(s, LI_OPEN \o A_HREF_OPEN, from) IN
    IF p = 0 THEN <<>>
    ELSE LET hb == p + Len(LI_OPEN) + Len(A_HREF_OPEN)
             he == Find(s, A_HREF_CLOSE, hb)
             tb == he + Len(A_HREF_CLOSE)
             te == Find(s, A_CLOSE \o LI_CLOSE, tb)
         IN  <<[href |-> SubSeq(s, hb, he - 1), text |-> SubSeq(s, tb, te - 1)]>>
                \o LinksFrom(s, te + Len(A_CLOSE) + Len(LI_CLOSE))

\* C4: generate_index emits exactly one link item per pair, the link text
\* the pair's title and the link target its file name, in the order of the
\* input list, duplicates kept.
C4_IndexKeepsInputOrder ==
    (call.fn = "generate_index" /\ Returned(ret)) =>
        /\ LinksFrom(ret.val, 1) =
              [k \in DOMAIN call.recipes |->
                  [href |-> call.recipes[k][2], text |-> call.recipes[k][1].v]]
        /\ Cardinality(Occurrences(ret.val, LI_OPEN)) = Len(call.recipes)

\* Soup, Bread and Soup again were indexed, in that order
C4_Witness ==
    /\ call.fn = "generate_index"
    /\ call.recipes = <<<<Str(T_SOUP), SOUP_HTML>>, <<Str(T_BREAD), BREAD_HTML>>,
                        <<Str(T_SOUP), SOUP_HTML>>>>
    /\ Returned(ret)
    /\ LinksFrom(ret.val, 1) =
          <<[href |-> SOUP_HTML, text |-> T_SOUP],
            [href |-> BREAD_HTML, text |-> T_BREAD],
            [href |-> SOUP_HTML, text |-> T_SOUP]>>

\* C5: a rendered page holds the Cookware heading if and only if the
\* document's cookware list is not empty; it then holds it once, followed by
\* a list with one item per cookware entry.
C5_CookwareSectionIffCookware ==
    PageReturned =>
        LET cookware == Get(RenderedDoc, "cookware", <<>>)
            heads == Occurrences(ret.val, COOKWARE_HEADING)
        IN  IF cookware = <<>> THEN heads = {}
            ELSE /\ Cardinality(heads) = 1
                 /\ \A h \in heads :
                       LET b == h + Len(COOKWARE_HEADING) IN
                       /\ StartsAt(ret.val, b, COOKWARE_LIST_OPEN)
                       /\ IsListOf(Between(SubSeq(ret.val, b, Len(ret.val)),
                                           COOKWARE_LIST_OPEN,
                                           COOKWARE_LIST_CLOSE),
                                   [k \in DOMAIN cookware |->
                                        cookware[k].v["name"].v])

\* a page with two cookware entries was rendered, with one heading
C5_Witness ==
    /\ PageReturned
    /\ Get(RenderedDoc, "cookware", <<>>) = <<Cookware(T_PAN), Cookware(T_POT)>>
    /\ Contains(ret.val,
                COOKWARE_HEADING \o COOKWARE_LIST_OPEN \o LI_OPEN \o T_PAN
                    \o LI_CLOSE \o LI_OPEN \o T_POT \o LI_CLOSE
                    \o COOKWARE_LIST_CLOSE)

\* The ingredient has no quantity: the field is absent, null or empty, or
\* holds no value.
NoQuantity(ing) ==
    \/ "quantity" \notin DOMAIN ing.v
    \/ ~IsDict(ing.v["quantity"])
    \/ ~Truthy(Get(ing.v["quantity"], "value", None))

\* C6: for every ingredient with no quantity the building of the
\* Ingredients list does not fail, and the ingredient's entry in the page is
\* exactly <li>name</li>.
C6_NoQuantityEntryIsNameOnly ==
    (call.fn = "generate_recipe_html" /\ ret # Pending
        /\ call.result.rc = 0 /\ IsDict(RenderedDoc)) =>
        LET ingredients == Get(RenderedDoc, "ingredients", <<>>) IN
        \A i \in DOMAIN ingredients :
            NoQuantity(ingredients[i]) =>
                /\ ret # Raise("AttributeError", 85)
                /\ Returned(ret) =>
                      ListItems(Between(ret.val, PAGE_INGREDIENTS_OPEN,
                                        PAGE_INGREDIENTS_CLOSE), 1)[i]
                          = ingredients[i].v["name"].v

\* An item of a step refers past the end of its flat list.
IsBadRef(item, data) ==
    /\ item.v["type"] \in {"ingredient", "cookware", "timer"}
    /\ item.v["index"] >=
          Len(Get(data, IF item.v["type"] = "ingredient" THEN "ingredients"
                        ELSE IF item.v["type"] = "cookware" THEN "cookware"
                        ELSE "timers", <<>>))

\* Some step of the document holds an item that refers past the end of its
\* flat list.
HasBadRef(data) ==
    \E entry \in Range(AllEntries(Get(data, "sections", <<>>))) :
        /\ IsStepEntry(entry)
        /\ \E item \in Range(Get(entry.v["value"], "items", <<>>)) :
              IsBadRef(item, data)

\* The invocation made by generate_recipe_html handed back a document.
GaveDocument(inv) ==
    inv.line = 67 /\ inv.result.rc = 0 /\ IsDict(inv.result.stdout)

\* C1: when the document of a recipe holds a step with an item whose index
\* is out of the bounds of its list, rendering raises a lookup failure, which
\* ends the run, and no .html file is written for that recipe.
C1_BadIndexIsLookupFailure ==
    \A k \in DOMAIN invocations :
        (GaveDocument(invocations[k]) /\ HasBadRef(invocations[k].result.stdout))
            => /\ k = Len(invocations)
               /\ pc = "raised"
               /\ exc.exc = "IndexError"
               /\ \A w \in DOMAIN written :
                     written[w].name # invocations[k].file \o HTML_SUFFIX

\* The invocation failed: a non-zero exit status, or output that encodes no
\* document.
Failed(inv) == inv.result.rc # 0 \/ ~IsDict(inv.result.stdout)

\* C2: an invocation of the parser that fails is the last one of the run,
\* and the run is aborted there: nothing later is processed and index.html
\* is not written.
C2_FailedInvocationAborts ==
    \A k \in DOMAIN invocations :
        Failed(invocations[k]) => (k = Len(invocations) /\ pc = "raised")

\* The position of stem in cook_files.
FilePos(stem) == CHOOSE i \in DOMAIN cook_files : cook_files[i] = stem

\* C9: in a run that completes, the files written are one <base name>.html
\* per recipe file, in order, and then index.html, whose i-th entry links
\* to the i-th recipe's page; and whenever the parser has been invoked for a
\* recipe file, the pages of all the files before it have been written.
C9_PagesThenIndex ==
    /\ pc = "done" =>
          /\ [w \in DOMAIN written |-> written[w].name] =
                [i \in DOMAIN cook_files |-> cook_files[i] \o HTML_SUFFIX]
                    \o <<INDEX_HTML>>
          /\ LET links == LinksFrom(written[Len(written)].text, 1) IN
             /\ Len(links) = Len(cook_files)
             /\ \A i \in DOMAIN cook_files :
                   links[i].href = cook_files[i] \o HTML_SUFFIX
    /\ \A k \in DOMAIN invocations :
          \A i \in 1..(FilePos(invocations[k].file) - 1) :
              /\ i <= Len(written)
              /\ written[i].name = cook_files[i] \o HTML_SUFFIX

\* a run over three recipe files has completed
C9_Witness ==
    /\ pc = "done"
    /\ Len(cook_files) = 3
    /\ Len(written) = 4
    /\ Len(invocations) = 6

\* The title of a recipe page: the text of its <title> and of its <h1>.
PageTitle(page) == Between(page, DOC_HEAD, TITLE_END_STYLE)
PageHeading(page) == Between(page, PAGE_BODY_OPEN, PAGE_INGREDIENTS_OPEN)

\* C10: in a run that completes, the link text of a recipe's index entry is
\* the title rendered in the recipe's own page, whatever the parser handed
\* back on each of its two invocations for the recipe.  (Stated for the runs
\* in which no invocation failed: those alone refute it.)
C10_IndexTitleIsPageTitle ==
    (pc = "done" /\ \A k \in DOMAIN invocations : ~Failed(invocations[k])) =>
        LET links == LinksFrom(written[Len(written)].text, 1) IN
        \A i \in DOMAIN cook_files :
            /\ links[i].text = PageTitle(written[i].text)
            /\ links[i].text = PageHeading(written[i].text)

=============================================================================
